---- MODULE Spec2Model ----
(***************************************************************************)
(* Model of generate_data.py: extraction of one table's column schema from *)
(* a SQL DDL script (parse_schema), the column classifier                  *)
(* (map_column_to_mimesis), the SQL literal formatter (format_sql_value)   *)
(* and the driver (main) that writes one INSERT per generated row.         *)
(*                                                                         *)
(* Text is modelled as a sequence of one-character strings, so that the    *)
(* string operations of the program (strip, split, upper, startswith,      *)
(* substring search, the regular expression of the fallback pass) are      *)
(* computed character by character as the program computes them.           *)
(***************************************************************************)
EXTENDS Integers, Sequences, FiniteSets, TLC

VARIABLES
    pc,               \* position of main / of the function under check
    sql_content,      \* text of the script (main: f.read())
    script,           \* the statements sql_content was rendered from
    table_name,       \* args.table
    engine,           \* args.engine
    rows,             \* args.rows
    tried,            \* dialects whose sqlglot.parse call has been made, in order
    parsed,           \* dialects for which sqlglot.parse returned (no exception)
    structured,       \* TRUE when the structured pass executed "return columns"
    fallback,         \* TRUE when the regex fallback pass was entered
    col_content,      \* match.group(1) of the fallback pass
    col_definitions,  \* clauses produced by the comma-aware tokenizer
    kept_lines,       \* the clauses that produced a descriptor, in order
    all_columns,      \* result of parse_schema
    providers,        \* main: ordered dict column name -> generator rule
    opened,           \* TRUE once the output file has been opened for writing
    output,           \* lines written to the output file, in order
    col_name,         \* map_column_to_mimesis: argument
    col_type,         \* map_column_to_mimesis: argument
    rule,             \* map_column_to_mimesis: selected generator rule
    row_i,            \* main: number of iterations of the row loop done
    val,              \* format_sql_value: argument
    literal           \* format_sql_value: result

vars == << pc, sql_content, script, table_name, engine, rows, tried, parsed,
           structured, fallback, col_content, col_definitions, kept_lines,
           all_columns, providers, opened, output, row_i, col_name, col_type,
           rule, val, literal >>

(***************************************************************************)
(* Bounds of the model.                                                    *)
(***************************************************************************)
MaxBodyLen == 5       \* longest body text given to the tokenizer on its own
MaxRows == 2          \* largest --rows value
MaxInt == 12          \* largest magnitude of an integer given to the formatter
MaxStrLen == 3        \* longest text given to the formatter

(***************************************************************************)
(* Characters and the string methods the program uses.                     *)
(***************************************************************************)
LowerLetters == << "a","b","c","d","e","f","g","h","i","j","k","l","m",
                   "n","o","p","q","r","s","t","u","v","w","x","y","z" >>
UpperLetters == << "A","B","C","D","E","F","G","H","I","J","K","L","M",
                   "N","O","P","Q","R","S","T","U","V","W","X","Y","Z" >>

Letters == {LowerLetters[i] : i \in 1..26} \cup {UpperLetters[i] : i \in 1..26}

\* the upper-case and the lower-case form of every letter
UpperOf ==
    [c \in Letters |->
        IF \E i \in 1..26 : LowerLetters[i] = c
        THEN UpperLetters[CHOOSE i \in 1..26 : LowerLetters[i] = c]
        ELSE c]

LowerOf ==
    [c \in Letters |->
        IF \E i \in 1..26 : UpperLetters[i] = c
        THEN LowerLetters[CHOOSE i \in 1..26 : UpperLetters[i] = c]
        ELSE c]

UpperChar(c) == IF c \in Letters THEN UpperOf[c] ELSE c

LowerChar(c) == IF c \in Letters THEN LowerOf[c] ELSE c

\* str.upper() and str.lower()
Upper(s) == [i \in 1..Len(s) |-> UpperChar(s[i])]
Lower(s) == [i \in 1..Len(s) |-> LowerChar(s[i])]

\* the characters str.strip() and str.split() and the regex \s treat as space
IsSpace(c) == c \in {" ", "\n", "\t"}

\* s.strip(chars): drop the leading and trailing characters that are in cs
StripChars(s, cs) ==
    LET keep == {i \in 1..Len(s) : s[i] \notin cs}
    IN  IF keep = {} THEN << >>
        ELSE LET lo == CHOOSE i \in keep : \A j \in keep : i <= j
                 hi == CHOOSE i \in keep : \A j \in keep : j <= i
             IN  SubSeq(s, lo, hi)

\* s.strip()
Strip(s) == StripChars(s, {" ", "\n", "\t"})

\* s.startswith(p)
StartsWith(s, p) == Len(s) >= Len(p) /\ SubSeq(s, 1, Len(p)) = p

\* sub in s
Contains(s, sub) ==
    \E i \in 1..(Len(s) - Len(sub) + 1) : SubSeq(s, i, i + Len(sub) - 1) = sub

\* s.split(): the maximal runs of non-space characters, in order.
\* SplitStep takes one character: st.cur is the run being read, st.acc the
\* runs already complete.
SplitStep(st, c) ==
    IF IsSpace(c)
    THEN [cur |-> << >>,
          acc |-> IF st.cur = << >> THEN st.acc ELSE Append(st.acc, st.cur)]
    ELSE [st EXCEPT !.cur = Append(@, c)]

\* the characters lo..hi, taken from left to right (the range is halved,
\* and the first half is computed before the second starts, only to keep
\* the evaluation shallow)
RECURSIVE SplitRange(_, _, _, _)
SplitRange(s, lo, hi, st) ==
    IF lo > hi THEN st
    ELSE IF lo = hi THEN SplitStep(st, s[lo])
    ELSE LET mid == (lo + hi) \div 2
             left == SplitRange(s, lo, mid, st)
         IN  IF Len(left.acc) >= 0
             THEN SplitRange(s, mid + 1, hi, left)
             ELSE left

Split(s) ==
    LET st == SplitRange(s, 1, Len(s), [cur |-> << >>, acc |-> << >>])
    IN  IF st.cur = << >> THEN st.acc ELSE Append(st.acc, st.cur)

(***************************************************************************)
(* parse_schema, fallback pass: the comma-aware tokenizer (lines 129-146). *)
(***************************************************************************)
\* a tokenizer that splits on every comma, whatever the depth
IsSeparator_AnyDepth(char, paren_depth) == char = ","

\* the separator test of line 140
IsSeparator(char, paren_depth) == char = "," /\ paren_depth = 0

\* lines 134-144: the body of the for loop, on the loop's variables
TokStep(st, char) ==
    IF char = "("
    THEN [st EXCEPT !.paren_depth = @ + 1, !.current_col = Append(@, char)]
    ELSE IF char = ")"
    THEN [st EXCEPT !.paren_depth = @ - 1, !.current_col = Append(@, char)]
    ELSE IF IsSeparator(char, st.paren_depth)
    THEN [st EXCEPT !.col_definitions = Append(@, Strip(st.current_col)),
                    !.current_col = << >>]
    ELSE [st EXCEPT !.current_col = Append(@, char)]

\* line 133: the iterations of the for loop for characters lo..hi, run from
\* loop state st.  The characters are taken from left to right; the range
\* is halved, and the state after the first half is computed (the test on
\* left) before the second half starts, only to keep the evaluation shallow.
RECURSIVE TokLoop(_, _, _, _)
TokLoop(s, lo, hi, st) ==
    IF lo > hi THEN st
    ELSE IF lo = hi THEN TokStep(st, s[lo])
    ELSE LET mid == (lo + hi) \div 2
             left == TokLoop(s, lo, mid, st)
         IN  IF left.paren_depth \in Int
             THEN TokLoop(s, mid + 1, hi, left)
             ELSE left

\* lines 130-146: the loop, then the trailing fragment when it is not empty
SplitColumns(s) ==
    LET st == TokLoop(s, 1, Len(s),
                      [col_definitions |-> << >>, current_col |-> << >>,
                       paren_depth |-> 0])
    IN  IF st.current_col # << >>
        THEN Append(st.col_definitions, Strip(st.current_col))
        ELSE st.col_definitions

(***************************************************************************)
(* parse_schema: keywords.                                                 *)
(***************************************************************************)
kwCREATE == << "C","R","E","A","T","E" >>
kwTABLE == << "T","A","B","L","E" >>
kwUSE == << "U","S","E" >>
kwDATABASE == << "D","A","T","A","B","A","S","E" >>
kwPRIMARY == << "P","R","I","M","A","R","Y" >>
kwFOREIGN == << "F","O","R","E","I","G","N" >>
kwKEY == << "K","E","Y" >>
kwCONSTRAINT == << "C","O","N","S","T","R","A","I","N","T" >>
kwINDEX == << "I","N","D","E","X" >>
kwIDENTITY == << "I","D","E","N","T","I","T","Y" >>
kwAUTO_INCREMENT == << "A","U","T","O","_","I","N","C","R","E","M","E","N","T" >>
kwSERIAL == << "S","E","R","I","A","L" >>
sTEXT == << "T","E","X","T" >>

\* line 90
dialects == << "mysql", "postgres", "oracle", "tsql" >>

\* the test of lines 110 and 157 on a text that is already upper case
HasIdentityWord(upper_text) ==
    \/ Contains(upper_text, kwIDENTITY)
    \/ Contains(upper_text, kwAUTO_INCREMENT)
    \/ Contains(upper_text, kwSERIAL)

(***************************************************************************)
(* parse_schema, structured pass (lines 92-121).                           *)
(*                                                                         *)
(* sqlglot is a library: an expression it returns is a record              *)
(*   [isCreate, this |-> [arg_key, name, expressions]]                     *)
(* where  this  is the node held by the Create under its argument "this",  *)
(* name is expression.this.this.name and expressions the schema's items    *)
(*   [isColumnDef, name, kind, constraints].                               *)
(***************************************************************************)
\* lines 107-112: some constraint's SQL contains an identity word
ConstraintsIdentity(constraints) ==
    \E k \in 1..Len(constraints) : HasIdentityWord(Upper(constraints[k]))

\* lines 100-118: one descriptor per ColumnDef of the schema, in order
RECURSIVE SchemaDefLoop(_, _, _)
SchemaDefLoop(defs, i, columns) ==
    IF i > Len(defs) THEN columns
    ELSE IF defs[i].isColumnDef
         THEN SchemaDefLoop(defs, i + 1,
                  Append(columns,
                         [name |-> defs[i].name,
                          type |-> defs[i].kind,
                          is_identity |-> ConstraintsIdentity(defs[i].constraints)]))
         ELSE SchemaDefLoop(defs, i + 1, columns)

\* the test of line 96
IsCreateTable(expression) ==
    expression.isCreate /\ expression.this.arg_key = "table"

\* lines 95-119: the first expression that passes the tests of lines 96 and
\* 99 makes parse_schema return its columns
RECURSIVE ExpressionLoop(_, _, _)
ExpressionLoop(expressions, i, tname) ==
    IF i > Len(expressions)
    THEN [returned |-> FALSE, columns |-> << >>]
    ELSE IF /\ IsCreateTable(expressions[i])
            /\ Lower(expressions[i].this.name) = Lower(tname)
         THEN [returned |-> TRUE,
               columns |-> SchemaDefLoop(expressions[i].this.expressions, 1, << >>)]
         ELSE ExpressionLoop(expressions, i + 1, tname)

(***************************************************************************)
(* parse_schema, fallback pass (lines 123-165).                            *)
(***************************************************************************)
\* the backquote character (written as a name: the token stands for the
\* one character)
BQ == "<bq>"

\* the alternatives of the two optional groups of the pattern of line 124
QuoteOpen == {"\"", "'", BQ, "["}
QuoteClose == {"\"", "'", BQ, "]"}

\* the first index from i on that is not a space (a greedy \s*)
RECURSIVE SkipSpace(_, _)
SkipSpace(s, i) ==
    IF i <= Len(s) /\ IsSpace(s[i]) THEN SkipSpace(s, i + 1) ELSE i

\* word w at index i of s, letters compared without case (re.IGNORECASE)
WordAt(s, i, w) ==
    /\ i + Len(w) - 1 <= Len(s)
    /\ Upper(SubSeq(s, i, i + Len(w) - 1)) = Upper(w)

\* The pattern of line 124 up to and including "\(", tried at index i: the
\* index of the first character of group 1, or 0 when it does not match.
\* (table names are identifiers: they hold no space, quote or parenthesis,
\* so the greedy choices of \s+, of the optional quotes and of \s* are the
\* only ones that can succeed)
HeadAt(s, i, tname) ==
    IF ~WordAt(s, i, kwCREATE) THEN 0
    ELSE LET a == i + Len(kwCREATE)
             b == SkipSpace(s, a)
         IN  IF b = a \/ ~WordAt(s, b, kwTABLE) THEN 0
             ELSE LET c == b + Len(kwTABLE)
                      d == SkipSpace(s, c)
                  IN  IF d = c THEN 0
                      ELSE LET e == IF d <= Len(s) /\ s[d] \in QuoteOpen
                                    THEN d + 1 ELSE d
                           IN  IF ~WordAt(s, e, tname) THEN 0
                               ELSE LET f == e + Len(tname)
                                        g == IF f <= Len(s) /\ s[f] \in QuoteClose
                                             THEN f + 1 ELSE f
                                        h == SkipSpace(s, g)
                                    IN  IF h <= Len(s) /\ s[h] = "("
                                        THEN h + 1 ELSE 0

\* the indexes j >= b at which the ");" that ends group 1 can stand
BodyEnds(s, b) ==
    {j \in b..(Len(s) - 1) : s[j] = ")" /\ s[j + 1] = ";"}

\* re.search(pattern, sql_content, IGNORECASE | DOTALL): the leftmost index
\* where the pattern matches; group 1 (.*?) ends at the first ");" after it
RegexSearch(s, tname) ==
    LET starts == {i \in 1..Len(s) :
                      HeadAt(s, i, tname) # 0 /\ BodyEnds(s, HeadAt(s, i, tname)) # {}}
    IN  IF starts = {} THEN [found |-> FALSE, group1 |-> << >>]
        ELSE LET i == CHOOSE x \in starts : \A y \in starts : x <= y
                 b == HeadAt(s, i, tname)
                 j == CHOOSE x \in BodyEnds(s, b) : \A y \in BodyEnds(s, b) : x <= y
             IN  [found |-> TRUE, group1 |-> SubSeq(s, b, j - 1)]

\* line 151: the prefixes that make a clause a table-level constraint
TableKeywords == {kwPRIMARY, kwFOREIGN, kwKEY, kwCONSTRAINT, kwINDEX}

\* the test of line 151 on a stripped clause
IsSkipped(line) ==
    \/ line = << >>
    \/ \E k \in TableKeywords : StartsWith(Upper(line), k)

\* line 155: the characters stripped from both ends of the first token
NameQuotes == {"\"", "'", BQ, "[", "]"}

\* line 157
LineIdentity(line) == HasIdentityWord(Upper(line))

\* lines 153-162: the descriptor of a clause that is not skipped
Descriptor(line) ==
    LET parts == Split(line)
    IN  [name |-> StripChars(parts[1], NameQuotes),
         type |-> IF Len(parts) > 1 THEN parts[2] ELSE sTEXT,
         is_identity |-> LineIdentity(line)]

\* lines 148-163: the clauses in order; lines holds the clauses that gave
\* a descriptor, columns[k] being the descriptor of lines[k]
RECURSIVE ColumnLoop(_, _, _, _)
ColumnLoop(defs, i, columns, lines) ==
    IF i > Len(defs) THEN [columns |-> columns, lines |-> lines]
    ELSE LET line == Strip(defs[i]) IN
         IF IsSkipped(line) \/ Split(line) = << >>
         THEN ColumnLoop(defs, i + 1, columns, lines)
         ELSE ColumnLoop(defs, i + 1, Append(columns, Descriptor(line)),
                         Append(lines, line))

(***************************************************************************)
(* map_column_to_mimesis (lines 17-67).  The provider it returns is named  *)
(* by the rule that selected it.                                           *)
(***************************************************************************)
w_email == << "e","m","a","i","l" >>
w_first_name == << "f","i","r","s","t","_","n","a","m","e" >>
w_firstname == << "f","i","r","s","t","n","a","m","e" >>
w_last_name == << "l","a","s","t","_","n","a","m","e" >>
w_lastname == << "l","a","s","t","n","a","m","e" >>
w_name == << "n","a","m","e" >>
w_phone == << "p","h","o","n","e" >>
w_tel == << "t","e","l" >>
w_address == << "a","d","d","r","e","s","s" >>
w_city == << "c","i","t","y" >>
w_country == << "c","o","u","n","t","r","y" >>
w_zip == << "z","i","p" >>
w_postal == << "p","o","s","t","a","l" >>
w_company == << "c","o","m","p","a","n","y" >>
w_date == << "d","a","t","e" >>
w_created_at == << "c","r","e","a","t","e","d","_","a","t" >>
w_updated_at == << "u","p","d","a","t","e","d","_","a","t" >>
w_price == << "p","r","i","c","e" >>
w_amount == << "a","m","o","u","n","t" >>
w_salary == << "s","a","l","a","r","y" >>
w_id_ == << "i","d","_" >>
w_id_usuario == << "i","d","_","u","s","u","a","r","i","o" >>
w_id == << "i","d" >>
w_int == << "i","n","t" >>
w_float == << "f","l","o","a","t" >>
w_decimal == << "d","e","c","i","m","a","l" >>
w_numeric == << "n","u","m","e","r","i","c" >>
w_double == << "d","o","u","b","l","e" >>
w_char == << "c","h","a","r" >>
w_text == << "t","e","x","t" >>
w_bool == << "b","o","o","l" >>
w_bit == << "b","i","t" >>
lit_NULL == << "N","U","L","L" >>
lit_TRUE == << "T","R","U","E" >>
lit_FALSE == << "F","A","L","S","E" >>
py_True == << "T","r","u","e" >>
py_False == << "F","a","l","s","e" >>
py_None == << "N","o","n","e" >>

\* a foreign-key test that forgets the exclusion of id_usuario
IsForeignKeyName_NoExclusion(name) == StartsWith(name, w_id_) /\ name # w_id

\* the test of line 52, on the lower-case name
IsForeignKeyName(name) ==
    /\ StartsWith(name, w_id_)
    /\ name # w_id_usuario
    /\ name # w_id

map_column_to_mimesis(cname, ctype) ==
    LET name == Lower(cname)
        t == Lower(ctype)
    IN  IF Contains(name, w_email) THEN "email"
        ELSE IF Contains(name, w_first_name) \/ Contains(name, w_firstname)
             THEN "first_name"
        ELSE IF Contains(name, w_last_name) \/ Contains(name, w_lastname)
             THEN "last_name"
        ELSE IF Contains(name, w_name) THEN "full_name"
        ELSE IF Contains(name, w_phone) \/ Contains(name, w_tel)
             THEN "phone_number"
        ELSE IF Contains(name, w_address) THEN "address"
        ELSE IF Contains(name, w_city) THEN "city"
        ELSE IF Contains(name, w_country) THEN "country"
        ELSE IF Contains(name, w_zip) \/ Contains(name, w_postal)
             THEN "zip_code"
        ELSE IF Contains(name, w_company) THEN "company"
        ELSE IF \/ Contains(name, w_date)
                \/ Contains(name, w_created_at)
                \/ Contains(name, w_updated_at)
             THEN "datetime"
        ELSE IF \/ Contains(name, w_price)
                \/ Contains(name, w_amount)
                \/ Contains(name, w_salary)
             THEN "decimal_number"
        ELSE IF IsForeignKeyName(name) THEN "integer_1_10"
        ELSE IF Contains(t, w_int) THEN "integer_1_100000"
        ELSE IF \/ Contains(t, w_float)
                \/ Contains(t, w_decimal)
                \/ Contains(t, w_numeric)
                \/ Contains(t, w_double)
             THEN "float_number"
        ELSE IF Contains(t, w_char) \/ Contains(t, w_text) THEN "word"
        ELSE IF Contains(t, w_bool) \/ Contains(t, w_bit) THEN "choice_bool"
        ELSE "word_fallback"

(***************************************************************************)
(* Python values.  A value is a record [t, b, n, s]: t is its type         *)
(* ("none", "bool", "int", "float", "str", "decimal"), b the boolean, n    *)
(* the integer (for a float: the value in hundredths), s the text of a     *)
(* str or of a Decimal.                                                    *)
(***************************************************************************)
NoneVal == [t |-> "none", b |-> FALSE, n |-> 0, s |-> << >>]
BoolVal(b) == [t |-> "bool", b |-> b, n |-> 0, s |-> << >>]
IntVal(n) == [t |-> "int", b |-> FALSE, n |-> n, s |-> << >>]
FloatVal(h) == [t |-> "float", b |-> FALSE, n |-> h, s |-> << >>]
StrVal(s) == [t |-> "str", b |-> FALSE, n |-> 0, s |-> s]
DecimalVal(s) == [t |-> "decimal", b |-> FALSE, n |-> 0, s |-> s]

DigitChars == << "0","1","2","3","4","5","6","7","8","9" >>

\* the decimal digits of a natural number
RECURSIVE Digits(_)
Digits(n) ==
    IF n < 10 THEN << DigitChars[n + 1] >>
    ELSE Digits(n \div 10) \o << DigitChars[(n % 10) + 1] >>

\* str(n) for an int
StrOfInt(n) == IF n < 0 THEN << "-" >> \o Digits(0 - n) ELSE Digits(n)

\* str(x) for the float x = h / 100: the shortest text that reads back as x
StrOfFloat(h) ==
    LET a == IF h < 0 THEN 0 - h ELSE h
        whole == a \div 100
        frac == a % 100
        sign == IF h < 0 THEN << "-" >> ELSE << >>
    IN  sign \o Digits(whole) \o << "." >> \o
        (IF frac % 10 = 0
         THEN << DigitChars[(frac \div 10) + 1] >>
         ELSE << DigitChars[(frac \div 10) + 1], DigitChars[(frac % 10) + 1] >>)

\* str(val)
PyStr(v) ==
    CASE v.t = "none" -> py_None
      [] v.t = "bool" -> IF v.b THEN py_True ELSE py_False
      [] v.t = "int" -> StrOfInt(v.n)
      [] v.t = "float" -> StrOfFloat(v.n)
      [] OTHER -> v.s

\* a formatter without the boolean rule
IsInstanceBool_Never(v) == FALSE

\* isinstance(val, bool)
IsInstanceBool(v) == v.t = "bool"

\* isinstance(val, (int, float)); bool is a subclass of int
IsInstanceIntFloat(v) == v.t \in {"bool", "int", "float"}

\* s.replace("'", "''"): the replacement in a text is the replacement in
\* its first half followed by the replacement in its second half
RECURSIVE EscapeQuotes(_)
EscapeQuotes(s) ==
    IF s = << >> THEN << >>
    ELSE IF Len(s) = 1
         THEN (IF s[1] = "'" THEN << "'", "'" >> ELSE s)
    ELSE LET mid == Len(s) \div 2
         IN  EscapeQuotes(SubSeq(s, 1, mid))
             \o EscapeQuotes(SubSeq(s, mid + 1, Len(s)))

(***************************************************************************)
(* format_sql_value (lines 69-83).                                         *)
(***************************************************************************)
format_sql_value(v, eng) ==
    IF v.t = "none" THEN lit_NULL
    ELSE IF IsInstanceBool(v)
         THEN IF eng = "mssql"
              THEN (IF v.b THEN << "1" >> ELSE << "0" >>)
              ELSE (IF v.b THEN lit_TRUE ELSE lit_FALSE)
    ELSE IF IsInstanceIntFloat(v) THEN PyStr(v)
    ELSE << "'" >> \o EscapeQuotes(PyStr(v)) \o << "'" >>

(***************************************************************************)
(* extract_database_name (lines 167-184).  The result is the name, or the  *)
(* empty text for None: main only tests it for truth.                      *)
(***************************************************************************)
\* the character class [a-zA-Z0-9_\[\]`\"']
IsDbNameChar(c) ==
    \/ \E i \in 1..26 : c = LowerLetters[i] \/ c = UpperLetters[i]
    \/ \E i \in 1..10 : c = DigitChars[i]
    \/ c \in {"_", "[", "]", BQ, "\"", "'"}

\* the first index from i on that is not in the class (a greedy [...]+)
RECURSIVE SkipDbName(_, _)
SkipDbName(s, i) ==
    IF i <= Len(s) /\ IsDbNameChar(s[i]) THEN SkipDbName(s, i + 1) ELSE i

\* "\s+([...]+)" tried at index a: group 1, or the empty text
NameAfterSpace(s, a) ==
    LET b == SkipSpace(s, a)
        c == SkipDbName(s, b)
    IN  IF b = a \/ c = b THEN << >> ELSE SubSeq(s, b, c - 1)

\* lines 173-176: USE\s+(name), leftmost match
UseMatches(s) ==
    {i \in 1..Len(s) :
        WordAt(s, i, kwUSE) /\ NameAfterSpace(s, i + Len(kwUSE)) # << >>}

\* lines 179-182: CREATE\s+DATABASE\s+(name), leftmost match
CreateDbAt(s, i) ==
    IF ~WordAt(s, i, kwCREATE) THEN << >>
    ELSE LET a == i + Len(kwCREATE)
             b == SkipSpace(s, a)
         IN  IF b = a \/ ~WordAt(s, b, kwDATABASE) THEN << >>
             ELSE NameAfterSpace(s, b + Len(kwDATABASE))

CreateDbMatches(s) == {i \in 1..Len(s) : CreateDbAt(s, i) # << >>}

extract_database_name(s) ==
    IF UseMatches(s) # {}
    THEN LET i == CHOOSE x \in UseMatches(s) : \A y \in UseMatches(s) : x <= y
         IN  StripChars(NameAfterSpace(s, i + Len(kwUSE)), NameQuotes)
    ELSE IF CreateDbMatches(s) # {}
    THEN LET i == CHOOSE x \in CreateDbMatches(s) :
                      \A y \in CreateDbMatches(s) : x <= y
         IN  StripChars(CreateDbAt(s, i), NameQuotes)
    ELSE << >>

(***************************************************************************)
(* The scripts given to main.  A script is a sequence of statements; its   *)
(* text (sql_content) is the statements written out, and sqlglot's         *)
(* expressions are the statements as the library would parse them.         *)
(***************************************************************************)
ident ==
    [ users |-> << "u","s","e","r","s" >>,
      Users |-> << "U","s","e","r","s" >>,
      USERS |-> << "U","S","E","R","S" >>,
      user |-> << "u","s","e","r" >>,
      user_roles |-> << "u","s","e","r","_","r","o","l","e","s" >>,
      orders |-> << "o","r","d","e","r","s" >>,
      id |-> << "i","d" >>,
      email |-> << "e","m","a","i","l" >>,
      key_code |-> << "k","e","y","_","c","o","d","e" >>,
      serial_no |-> << "s","e","r","i","a","l","_","n","o" >>,
      price |-> << "p","r","i","c","e" >>,
      active |-> << "a","c","t","i","v","e" >>,
      oid |-> << "o","i","d" >> ]
sqltype ==
    [ INT |-> << "I","N","T" >>,
      VARCHAR |-> << "V","A","R","C","H","A","R","(","2","5","5",")" >>,
      DECIMAL |-> << "D","E","C","I","M","A","L","(","1","0",",","2",")" >>,
      BIT |-> << "B","I","T" >> ]
clausetail ==
    [ IDENTITY11 |-> << "I","D","E","N","T","I","T","Y","(","1",",","1",")" >>,
      NOT_NULL |-> << "N","O","T"," ","N","U","L","L" >>,
      PRIMARY_KEY |-> << "P","R","I","M","A","R","Y"," ","K","E","Y"," ","(","i","d",")" >> ]
tail_ENGINE == << " ","E","N","G","I","N","E","=","I","n","n","o","D","B" >>
s_CREATE_TABLE == << "C","R","E","A","T","E"," ","T","A","B","L","E"," " >>
d_shop == << "s","h","o","p" >>

\* a column definition: optional quote q, name, type, column constraints
ColumnClause(q, name, kind, constraints) ==
    [isColumnDef |-> TRUE, q |-> q, name |-> name, kind |-> kind,
     constraints |-> constraints, text |-> << >>]

\* a table-level constraint, given by its text
TableClause(text) ==
    [isColumnDef |-> FALSE, q |-> "", name |-> << >>, kind |-> << >>,
     constraints |-> << >>, text |-> text]

CreateStmt(q, name, clauses, tail) ==
    [kind |-> "create", q |-> q, name |-> name, clauses |-> clauses,
     tail |-> tail]

UseStmt(name) ==
    [kind |-> "use", q |-> "", name |-> name, clauses |-> << >>,
     tail |-> << >>]

CloseOf(q) == IF q = "[" THEN "]" ELSE q

Quoted(q, n) == IF q = "" THEN n ELSE << q >> \o n \o << CloseOf(q) >>

\* sep.join(texts)
RECURSIVE JoinWith(_, _)
JoinWith(sep, texts) ==
    IF texts = << >> THEN << >>
    ELSE IF Len(texts) = 1 THEN texts[1]
    ELSE texts[1] \o sep \o JoinWith(sep, Tail(texts))

ClauseText(c) ==
    IF c.isColumnDef
    THEN JoinWith(<< " " >>, << Quoted(c.q, c.name), c.kind >> \o c.constraints)
    ELSE c.text

StmtText(st) ==
    IF st.kind = "use"
    THEN kwUSE \o << " " >> \o st.name \o << ";" >>
    ELSE s_CREATE_TABLE \o Quoted(st.q, st.name) \o << " ", "(" >>
         \o JoinWith(<< ",", " " >>,
                     [k \in 1..Len(st.clauses) |-> ClauseText(st.clauses[k])])
         \o << ")" >> \o st.tail \o << ";" >>

ScriptText(sc) ==
    JoinWith(<< "\n" >>, [i \in 1..Len(sc) |-> StmtText(sc[i])])

\* sqlglot.parse(sql_content, read=dialect) when it raises nothing: one
\* expression per statement.  The node a Create holds under its argument
\* "this" has arg_key "this": arg_key is the name of the argument of the
\* parent that holds the node.
SqlglotParse(sc, dialect) ==
    [i \in 1..Len(sc) |->
        [isCreate |-> sc[i].kind = "create",
         this |-> [arg_key |-> "this",
                   name |-> sc[i].name,
                   expressions |->
                       [k \in 1..Len(sc[i].clauses) |->
                           [isColumnDef |-> sc[i].clauses[k].isColumnDef,
                            name |-> sc[i].clauses[k].name,
                            kind |-> sc[i].clauses[k].kind,
                            constraints |-> sc[i].clauses[k].constraints]]]]]

ColumnLists ==
    { << ColumnClause("", ident.id, sqltype.INT, << clausetail.IDENTITY11 >>),
         ColumnClause("", ident.email, sqltype.VARCHAR, << >>) >>,
      << ColumnClause("", ident.id, sqltype.INT, << >>),
         ColumnClause("", ident.key_code, sqltype.INT, << >>) >>,
      << ColumnClause("", ident.serial_no, sqltype.VARCHAR, << >>),
         ColumnClause("", ident.price, sqltype.DECIMAL, << clausetail.NOT_NULL >>) >>,
      << ColumnClause("\"", ident.id, sqltype.INT, << >>),
         ColumnClause("", ident.active, sqltype.BIT, << >>),
         TableClause(clausetail.PRIMARY_KEY) >> }

FirstColumnList ==
    << ColumnClause("", ident.id, sqltype.INT, << clausetail.IDENTITY11 >>),
       ColumnClause("", ident.email, sqltype.VARCHAR, << >>) >>

OrdersStmt ==
    CreateStmt("", ident.orders,
               << ColumnClause("", ident.oid, sqltype.INT, << >>),
                  ColumnClause("", ident.email, sqltype.VARCHAR, << >>) >>, << >>)

Tails == {<< >>, tail_ENGINE}

Scripts ==
    {<< CreateStmt("", n, cl, tl) >> :
        n \in {ident.users, ident.Users, ident.user_roles}, cl \in ColumnLists, tl \in Tails}
    \cup {<< CreateStmt(q, ident.users, FirstColumnList, << >>) >> : q \in {BQ, "["}}
    \cup {<< CreateStmt("", ident.users, cl, tl), OrdersStmt >> :
             cl \in ColumnLists, tl \in Tails}
    \cup {<< UseStmt(d_shop), CreateStmt("", ident.users, FirstColumnList, << >>) >>}

TableNames == {ident.users, ident.USERS, ident.user, ident.orders}

\* the choices of --engine (line 189)
Engines == {"oracle", "mssql", "postgresql", "mysql"}

\* the values of --rows
RowCounts == (0 - 1)..MaxRows

\* the values of --db; the empty text when the option is absent
DbArgs == {<< >>, d_shop}

(***************************************************************************)
(* The values a provider can return, by rule (a few of each).              *)
(***************************************************************************)
sample ==
    [ email |-> << "a","@","b",".","c" >>,
      first |-> << "A","l" >>,
      last |-> << "O","'","N","e","i","l" >>,
      full |-> << "A","l"," ","O","'","N","e","i","l" >>,
      phone |-> << "5","5","5" >>,
      addr |-> << "1"," ","M","a","i","n"," ","S","t" >>,
      city |-> << "R","o","m","e" >>,
      country |-> << "C","h","a","d" >>,
      zip |-> << "9","0","2","1","0" >>,
      company |-> << "A","c","m","e" >>,
      datetime |-> << "2","0","2","4","-","0","1","-","0","2"," ","0","3",":","0","4",":","0","5" >>,
      decimal |-> << "1","2",".","3","4" >>,
      word |-> << "w" >> ]

ProviderValues(r) ==
    CASE r = "email" -> {StrVal(sample.email)}
      [] r = "first_name" -> {StrVal(sample.first)}
      [] r = "last_name" -> {StrVal(sample.last)}
      [] r = "full_name" -> {StrVal(sample.full)}
      [] r = "phone_number" -> {StrVal(sample.phone)}
      [] r = "address" -> {StrVal(sample.addr)}
      [] r = "city" -> {StrVal(sample.city)}
      [] r = "country" -> {StrVal(sample.country)}
      [] r = "zip_code" -> {StrVal(sample.zip)}
      [] r = "company" -> {StrVal(sample.company)}
      [] r = "datetime" -> {StrVal(sample.datetime)}
      [] r = "decimal_number" -> {DecimalVal(sample.decimal)}
      [] r = "integer_1_10" -> {IntVal(1), IntVal(10)}
      [] r = "integer_1_100000" -> {IntVal(7)}
      [] r = "float_number" -> {FloatVal(150)}
      [] r = "choice_bool" -> {BoolVal(TRUE), BoolVal(FALSE)}
      [] OTHER -> {StrVal(sample.word)}

(***************************************************************************)
(* main (lines 186-260).                                                   *)
(***************************************************************************)
\* a main that never stops on an empty result
NoColumns_Never(cols) == FALSE

\* line 205: not all_columns
NoColumns(cols) == cols = << >>

\* a main that generates values for identity columns too
IsGenerated_All(c) == TRUE

\* the filter of line 214
IsGenerated(c) == ~c.is_identity

\* d[k] = v on a dict kept in insertion order: a new key goes last, a key
\* already present keeps its place and takes the new value
DictPut(d, k, v) ==
    IF \E i \in 1..Len(d) : d[i].name = k
    THEN [i \in 1..Len(d) |-> IF d[i].name = k THEN [name |-> k, rule |-> v]
                                               ELSE d[i]]
    ELSE Append(d, [name |-> k, rule |-> v])

\* line 223: the dict comprehension over the non-identity columns
RECURSIVE BuildProviders(_, _, _)
BuildProviders(columns, i, d) ==
    IF i > Len(columns) THEN d
    ELSE BuildProviders(columns, i + 1,
             DictPut(d, columns[i].name,
                     map_column_to_mimesis(columns[i].name, columns[i].type)))

\* line 245: one call of every provider, in the order of the dict
RECURSIVE RowChoices(_)
RowChoices(d) ==
    IF d = << >> THEN {<< >>}
    ELSE {<< v >> \o r : v \in ProviderValues(Head(d).rule),
                         r \in RowChoices(Tail(d))}

\* one f.write call
Line(kind, names, values) == [kind |-> kind, names |-> names, values |-> values]

\* lines 228-242: what is written before the rows
HeaderLines(tname, eng, identity_columns, db_name) ==
    << Line("comment_table", << tname >>, << >>),
       Line("comment_engine", << >>, << >>) >>
    \o (IF identity_columns # << >>
        THEN << Line("comment_skipped",
                     [i \in 1..Len(identity_columns) |-> identity_columns[i].name],
                     << >>) >>
        ELSE << >>)
    \o << Line("blank", << >>, << >>) >>
    \o (IF db_name # << >>
        THEN << Line(IF eng = "mssql" THEN "use_go" ELSE "use",
                     << db_name >>, << >>) >>
        ELSE << >>)
    \o (IF eng = "mssql"
        THEN << Line("comment_disable", << >>, << >>),
                Line("nocheck_constraints", << >>, << >>) >>
        ELSE << >>)

\* lines 253-258: what is written after the rows
FooterLines(eng) ==
    (IF eng = "oracle" THEN << Line("commit", << >>, << >>) >> ELSE << >>)
    \o (IF eng = "mssql" THEN << Line("check_constraints", << >>, << >>) >>
        ELSE << >>)

\* lines 247-250: the INSERT of one row
InsertLine(d, vals, eng) ==
    Line("insert",
         [i \in 1..Len(d) |-> d[i].name],
         [i \in 1..Len(d) |-> format_sql_value(vals[i], eng)])

NoCall == << col_name, col_type, rule, val, literal >>
NoParse == << tried, parsed, structured, fallback, col_content,
              col_definitions, kept_lines, all_columns >>
NoWrite == << providers, opened, output, row_i >>
Args == << sql_content, script, table_name, engine, rows >>

Init ==
    /\ pc = "start"
    /\ script \in Scripts
    /\ sql_content = ScriptText(script)
    /\ table_name \in TableNames
    /\ engine \in Engines
    /\ rows \in RowCounts
    /\ tried = << >>
    /\ parsed = {}
    /\ structured = FALSE
    /\ fallback = FALSE
    /\ col_content = << >>
    /\ col_definitions = << >>
    /\ kept_lines = << >>
    /\ all_columns = << >>
    /\ providers = << >>
    /\ opened = FALSE
    /\ output = << >>
    /\ row_i = 0
    /\ col_name = << >>
    /\ col_type = << >>
    /\ rule = "none"
    /\ val = NoneVal
    /\ literal = << >>

\* lines 197-199: the script file does not exist
ScriptMissing ==
    /\ pc = "start"
    /\ pc' = "exit1"
    /\ UNCHANGED << Args, NoParse, NoWrite, NoCall >>

\* lines 201-204: the script is read and parse_schema is called
ReadScript ==
    /\ pc = "start"
    /\ pc' = "structured"
    /\ UNCHANGED << Args, NoParse, NoWrite, NoCall >>

\* lines 92-94, 120-121: sqlglot.parse raises for the next dialect
TryDialectRaises ==
    /\ pc = "structured"
    /\ Len(tried) < Len(dialects)
    /\ tried' = Append(tried, dialects[Len(tried) + 1])
    /\ UNCHANGED << pc, Args, parsed, structured, fallback, col_content,
                    col_definitions, kept_lines, all_columns, NoWrite, NoCall >>

\* lines 92-119: sqlglot.parse returns for the next dialect and its
\* expressions are searched for the table
TryDialectParses ==
    /\ pc = "structured"
    /\ Len(tried) < Len(dialects)
    /\ LET dialect == dialects[Len(tried) + 1]
           r == ExpressionLoop(SqlglotParse(script, dialect), 1, table_name)
       IN  /\ tried' = Append(tried, dialect)
           /\ parsed' = parsed \cup {dialect}
           /\ IF r.returned
              THEN /\ all_columns' = r.columns
                   /\ structured' = TRUE
                   /\ pc' = "check"
              ELSE UNCHANGED << all_columns, structured, pc >>
    /\ UNCHANGED << Args, fallback, col_content, col_definitions, kept_lines,
                    NoWrite, NoCall >>

\* lines 123-165: every dialect was tried without a return
Fallback ==
    /\ pc = "structured"
    /\ Len(tried) = Len(dialects)
    /\ fallback' = TRUE
    /\ LET match == RegexSearch(sql_content, table_name) IN
       IF match.found
       THEN LET defs == SplitColumns(match.group1)
                r == ColumnLoop(defs, 1, << >>, << >>)
            IN  /\ col_content' = match.group1
                /\ col_definitions' = defs
                /\ kept_lines' = r.lines
                /\ all_columns' = r.columns
       ELSE UNCHANGED << col_content, col_definitions, kept_lines, all_columns >>
    /\ pc' = "check"
    /\ UNCHANGED << Args, tried, parsed, structured, NoWrite, NoCall >>

\* lines 205-207: no column, the run stops
NotFound ==
    /\ pc = "check"
    /\ NoColumns(all_columns)
    /\ pc' = "exit1"
    /\ UNCHANGED << Args, NoParse, NoWrite, NoCall >>

\* lines 209-242: providers are built, the output file is opened and the
\* lines before the rows are written
WriteHeader ==
    /\ pc = "check"
    /\ ~NoColumns(all_columns)
    /\ \E db \in DbArgs :
         LET db_name == IF db # << >> THEN db
                        ELSE extract_database_name(sql_content)
             columns == SelectSeq(all_columns, IsGenerated)
             identity_columns ==
                 SelectSeq(all_columns, LAMBDA c : ~IsGenerated(c))
         IN  /\ providers' = BuildProviders(columns, 1, << >>)
             /\ output' = HeaderLines(table_name, engine, identity_columns,
                                      db_name)
    /\ opened' = TRUE
    /\ row_i' = 0
    /\ pc' = "rows"
    /\ UNCHANGED << Args, NoParse, NoCall >>

\* lines 244-251: one iteration of the row loop
WriteRow ==
    /\ pc = "rows"
    /\ row_i < rows
    /\ \E vals \in RowChoices(providers) :
         output' = Append(output, InsertLine(providers, vals, engine))
    /\ row_i' = row_i + 1
    /\ UNCHANGED << pc, Args, NoParse, providers, opened, NoCall >>

\* lines 253-260: the loop is over, the closing lines are written
Finish ==
    /\ pc = "rows"
    /\ ~(row_i < rows)
    /\ output' = output \o FooterLines(engine)
    /\ pc' = "done"
    /\ UNCHANGED << Args, NoParse, providers, opened, row_i, NoCall >>

Next ==
    \/ ScriptMissing
    \/ ReadScript
    \/ TryDialectRaises
    \/ TryDialectParses
    \/ Fallback
    \/ NotFound
    \/ WriteHeader
    \/ WriteRow
    \/ Finish

Spec == Init /\ [][Next]_vars

(***************************************************************************)
(* The tokenizer of the fallback pass on its own: every body text over a   *)
(* small alphabet is tokenized as lines 129-146 do.                        *)
(***************************************************************************)
BodyChars == {"(", ")", ",", "a", " "}

Bodies == UNION {[1..n -> BodyChars] : n \in 0..MaxBodyLen}

Idle == << sql_content, script, table_name, rows, tried, parsed, structured,
           fallback, kept_lines, all_columns, providers, opened, output,
           row_i >>

InitIdle ==
    /\ script = << >>
    /\ sql_content = << >>
    /\ table_name = << >>
    /\ rows = 0
    /\ tried = << >>
    /\ parsed = {}
    /\ structured = FALSE
    /\ fallback = FALSE
    /\ kept_lines = << >>
    /\ all_columns = << >>
    /\ providers = << >>
    /\ opened = FALSE
    /\ output = << >>
    /\ row_i = 0

InitTok ==
    /\ InitIdle
    /\ pc = "tokenize"
    /\ col_content \in Bodies
    /\ col_definitions = << >>
    /\ engine = "mysql"
    /\ col_name = << >>
    /\ col_type = << >>
    /\ rule = "none"
    /\ val = NoneVal
    /\ literal = << >>

Tokenize ==
    /\ pc = "tokenize"
    /\ col_definitions' = SplitColumns(col_content)
    /\ pc' = "tokenized"
    /\ UNCHANGED << Idle, engine, col_content, NoCall >>

SpecTok == InitTok /\ [][Tokenize]_vars

(***************************************************************************)
(* map_column_to_mimesis on its own.                                       *)
(***************************************************************************)
cn ==
    [ Email |-> << "E","m","a","i","l" >>,
      first_name |-> << "f","i","r","s","t","_","n","a","m","e" >>,
      LastName |-> << "L","a","s","t","N","a","m","e" >>,
      username |-> << "u","s","e","r","n","a","m","e" >>,
      telephone |-> << "t","e","l","e","p","h","o","n","e" >>,
      hotel |-> << "h","o","t","e","l" >>,
      home_address |-> << "h","o","m","e","_","a","d","d","r","e","s","s" >>,
      city |-> << "c","i","t","y" >>,
      country |-> << "c","o","u","n","t","r","y" >>,
      zip |-> << "z","i","p" >>,
      company |-> << "c","o","m","p","a","n","y" >>,
      birth_date |-> << "b","i","r","t","h","_","d","a","t","e" >>,
      updated_at |-> << "u","p","d","a","t","e","d","_","a","t" >>,
      salary |-> << "s","a","l","a","r","y" >>,
      id |-> << "i","d" >>,
      ID |-> << "I","D" >>,
      id_usuario |-> << "i","d","_","u","s","u","a","r","i","o" >>,
      Id_Usuario |-> << "I","d","_","U","s","u","a","r","i","o" >>,
      id_role |-> << "i","d","_","r","o","l","e" >>,
      id_city |-> << "i","d","_","c","i","t","y" >>,
      id_usuario_2 |-> << "i","d","_","u","s","u","a","r","i","o","2" >>,
      idx |-> << "i","d","x" >>,
      qty |-> << "q","t","y" >>,
      active |-> << "a","c","t","i","v","e" >> ]
ct ==
    [ INT |-> << "I","N","T" >>,
      bigint |-> << "b","i","g","i","n","t" >>,
      POINT |-> << "P","O","I","N","T" >>,
      VARCHAR |-> << "V","A","R","C","H","A","R","(","2","5","5",")" >>,
      DECIMAL |-> << "D","E","C","I","M","A","L","(","1","0",",","2",")" >>,
      FLOAT |-> << "F","L","O","A","T" >>,
      TEXT |-> << "T","E","X","T" >>,
      BOOLEAN |-> << "B","O","O","L","E","A","N" >>,
      BIT |-> << "B","I","T" >>,
      DATETIME |-> << "D","A","T","E","T","I","M","E" >>,
      BLOB |-> << "B","L","O","B" >> ]

ColNames ==
    {cn.Email, cn.first_name, cn.LastName, cn.username, cn.telephone,
     cn.hotel, cn.home_address, cn.city, cn.country, cn.zip, cn.company,
     cn.birth_date, cn.updated_at, cn.salary, cn.id, cn.ID, cn.id_usuario,
     cn.Id_Usuario, cn.id_role, cn.id_city, cn.id_usuario_2, cn.idx, cn.qty,
     cn.active}

ColTypes ==
    {ct.INT, ct.bigint, ct.POINT, ct.VARCHAR, ct.DECIMAL, ct.FLOAT, ct.TEXT,
     ct.BOOLEAN, ct.BIT, ct.DATETIME, ct.BLOB}

InitMap ==
    /\ InitIdle
    /\ pc = "classify"
    /\ col_name \in ColNames
    /\ col_type \in ColTypes
    /\ rule = "none"
    /\ engine = "mysql"
    /\ col_content = << >>
    /\ col_definitions = << >>
    /\ val = NoneVal
    /\ literal = << >>

Classify ==
    /\ pc = "classify"
    /\ rule' = map_column_to_mimesis(col_name, col_type)
    /\ pc' = "classified"
    /\ UNCHANGED << Idle, engine, col_content, col_definitions, col_name,
                    col_type, val, literal >>

SpecMap == InitMap /\ [][Classify]_vars

(***************************************************************************)
(* format_sql_value on its own.                                            *)
(***************************************************************************)
Texts == UNION {[1..n -> {"a", "'"}] : n \in 0..MaxStrLen} \cup {sample.last}

FmtValues ==
    {NoneVal, BoolVal(TRUE), BoolVal(FALSE), DecimalVal(sample.decimal)}
    \cup {IntVal(n) : n \in (0 - MaxInt)..MaxInt}
    \cup {FloatVal(25 * k) : k \in (0 - MaxInt)..MaxInt}
    \cup {StrVal(t) : t \in Texts}

InitFmt ==
    /\ InitIdle
    /\ pc = "format"
    /\ val \in FmtValues
    /\ engine \in Engines
    /\ literal = << >>
    /\ col_content = << >>
    /\ col_definitions = << >>
    /\ col_name = << >>
    /\ col_type = << >>
    /\ rule = "none"

Format ==
    /\ pc = "format"
    /\ literal' = format_sql_value(val, engine)
    /\ pc' = "formatted"
    /\ UNCHANGED << Idle, engine, col_content, col_definitions, col_name,
                    col_type, rule, val >>

SpecFmt == InitFmt /\ [][Format]_vars

(***************************************************************************)
(* Properties of the tokenizer.                                            *)
(***************************************************************************)
\* number of "(" minus number of ")" among the first i characters of s
ParenDepthAt(s, i) ==
    Cardinality({j \in 1..i : s[j] = "("}) - Cardinality({j \in 1..i : s[j] = ")"})

\* the parentheses of s are balanced and properly nested
BalancedNested(s) ==
    /\ ParenDepthAt(s, Len(s)) = 0
    /\ \A i \in 1..Len(s) : ParenDepthAt(s, i) >= 0

\* the positions of the commas of s that stand outside every parenthesis
ZeroDepthCommas(s) ==
    {i \in 1..Len(s) : s[i] = "," /\ ParenDepthAt(s, i - 1) = 0}

CountOf(s, c) == Cardinality({j \in 1..Len(s) : s[j] = c})

SegmentsBalanced(defs) ==
    \A k \in 1..Len(defs) : CountOf(defs[k], "(") = CountOf(defs[k], ")")

\* no character follows the last zero-depth comma, or the body is empty
NothingAfterLastComma(s) == s = << >> \/ Len(s) \in ZeroDepthCommas(s)

\* C5 (as stated): for a body with balanced, properly nested parentheses the
\* tokenizer produces as many segments as the body has zero-depth commas,
\* plus one, and every segment has as many "(" as ")".
C5_SegmentsAreCommasPlusOne ==
    (pc = "tokenized" /\ BalancedNested(col_content)) =>
        /\ Len(col_definitions) = Cardinality(ZeroDepthCommas(col_content)) + 1
        /\ SegmentsBalanced(col_definitions)

\* C5 (amended): the same, except that a body that is empty or ends with a
\* zero-depth comma gives no segment for the empty text after it, so the
\* number of segments is then the number of zero-depth commas.
C5_SegmentsExceptEmptyTrailing ==
    (pc = "tokenized" /\ BalancedNested(col_content)) =>
        /\ Len(col_definitions) =
               Cardinality(ZeroDepthCommas(col_content))
               + (IF NothingAfterLastComma(col_content) THEN 0 ELSE 1)
        /\ SegmentsBalanced(col_definitions)

\* a body with a nested comma and a zero-depth comma has been tokenized
C5_Witness ==
    /\ pc = "tokenized"
    /\ col_content = << "(", ",", ")", ",", "a" >>
    /\ col_definitions = << << "(", ",", ")" >>, << "a" >> >>

(***************************************************************************)
(* Properties of format_sql_value.                                         *)
(***************************************************************************)
DigitValue(c) == (CHOOSE i \in 1..10 : DigitChars[i] = c) - 1

IsDigit(c) == \E i \in 1..10 : DigitChars[i] = c

\* the number written by a non-empty text of digits
RECURSIVE NumberOf(_)
NumberOf(ds) ==
    IF Len(ds) = 1 THEN DigitValue(ds[1])
    ELSE 10 * NumberOf(SubSeq(ds, 1, Len(ds) - 1)) + DigitValue(ds[Len(ds)])

\* text is an optional "-", digits, and optionally "." and one or two digits
IsDecimalText(text) ==
    LET body == IF text # << >> /\ text[1] = "-" THEN Tail(text) ELSE text
        dots == {i \in 1..Len(body) : body[i] = "."}
    IN  /\ body # << >>
        /\ \A i \in 1..Len(body) : IsDigit(body[i]) \/ body[i] = "."
        /\ Cardinality(dots) <= 1
        /\ \A i \in dots : i > 1 /\ Len(body) - i \in {1, 2}

\* the number a decimal text writes, in hundredths
HundredthsOf(text) ==
    LET neg == text[1] = "-"
        body == IF neg THEN Tail(text) ELSE text
        dots == {i \in 1..Len(body) : body[i] = "."}
        dot == IF dots = {} THEN Len(body) + 1 ELSE CHOOSE i \in dots : TRUE
        whole == NumberOf(SubSeq(body, 1, dot - 1))
        fracText == SubSeq(body, dot + 1, Len(body))
        frac == IF fracText = << >> THEN 0
                ELSE IF Len(fracText) = 1 THEN 10 * NumberOf(fracText)
                ELSE NumberOf(fracText)
        abs == 100 * whole + frac
    IN  IF neg THEN 0 - abs ELSE abs

\* every maximal run of single quotes in text has an even length
QuotesPaired(text) ==
    \A i \in 1..Len(text) :
        (text[i] = "'" /\ (i = 1 \/ text[i - 1] # "'")) =>
            \E j \in i..Len(text) :
                /\ \A k \in i..j : text[k] = "'"
                /\ (j = Len(text) \/ text[j + 1] # "'")
                /\ (j - i + 1) % 2 = 0

\* text with every pair of single quotes read as one single quote
RECURSIVE Unescaped(_)
Unescaped(text) ==
    IF text = << >> THEN << >>
    ELSE IF Len(text) >= 2 /\ text[1] = "'" /\ text[2] = "'"
         THEN << "'" >> \o Unescaped(SubSeq(text, 3, Len(text)))
         ELSE << text[1] >> \o Unescaped(Tail(text))

\* C8: null gives NULL; a boolean gives 1/0 for mssql and TRUE/FALSE for the
\* other engines, never its numeric text; an int or a float gives the
\* decimal text of its value, without quotes; any other value gives its text
\* between single quotes with every single quote doubled.
C8_LiteralByRule ==
    pc = "formatted" =>
        /\ val.t = "none" => literal = lit_NULL
        /\ val.t = "bool" =>
               literal = (IF engine = "mssql"
                          THEN (IF val.b THEN << "1" >> ELSE << "0" >>)
                          ELSE (IF val.b THEN lit_TRUE ELSE lit_FALSE))
        /\ val.t = "int" =>
               /\ IsDecimalText(literal)
               /\ HundredthsOf(literal) = 100 * val.n
        /\ val.t = "float" =>
               /\ IsDecimalText(literal)
               /\ HundredthsOf(literal) = val.n
        /\ val.t \in {"str", "decimal"} =>
               /\ Len(literal) >= 2
               /\ literal[1] = "'"
               /\ literal[Len(literal)] = "'"
               /\ QuotesPaired(SubSeq(literal, 2, Len(literal) - 1))
               /\ Unescaped(SubSeq(literal, 2, Len(literal) - 1)) = val.s

\* O'Neil has been formatted as 'O''Neil'
C8_Witness ==
    /\ pc = "formatted"
    /\ val = StrVal(sample.last)
    /\ literal = << "'", "O", "'", "'", "N", "e", "i", "l", "'" >>

(***************************************************************************)
(* Properties of map_column_to_mimesis.                                    *)
(***************************************************************************)
\* the ordered rule list of the classifier: rule and condition, on the
\* lower-case name and the lower-case type
RuleList(name, t) ==
    << << "email", Contains(name, w_email) >>,
       << "first_name", Contains(name, w_first_name) \/ Contains(name, w_firstname) >>,
       << "last_name", Contains(name, w_last_name) \/ Contains(name, w_lastname) >>,
       << "full_name", Contains(name, w_name) >>,
       << "phone_number", Contains(name, w_phone) \/ Contains(name, w_tel) >>,
       << "address", Contains(name, w_address) >>,
       << "city", Contains(name, w_city) >>,
       << "country", Contains(name, w_country) >>,
       << "zip_code", Contains(name, w_zip) \/ Contains(name, w_postal) >>,
       << "company", Contains(name, w_company) >>,
       << "datetime", \/ Contains(name, w_date)
                      \/ Contains(name, w_created_at)
                      \/ Contains(name, w_updated_at) >>,
       << "decimal_number", \/ Contains(name, w_price)
                            \/ Contains(name, w_amount)
                            \/ Contains(name, w_salary) >>,
       << "integer_1_10", /\ StartsWith(name, w_id_)
                          /\ name \notin {w_id, w_id_usuario} >>,
       << "integer_1_100000", Contains(t, w_int) >>,
       << "float_number", \/ Contains(t, w_float) \/ Contains(t, w_decimal)
                          \/ Contains(t, w_numeric) \/ Contains(t, w_double) >>,
       << "word", Contains(t, w_char) \/ Contains(t, w_text) >>,
       << "choice_bool", Contains(t, w_bool) \/ Contains(t, w_bit) >>,
       << "word_fallback", TRUE >> >>

TypeRules ==
    {"integer_1_100000", "float_number", "word", "choice_bool", "word_fallback"}

\* C9: the provider selected for a (name, type) pair is that of the first
\* rule of the ordered list whose condition holds; the id_ rule is selected
\* only when no earlier rule holds and never for id or id_usuario, which are
\* classified by the type rules.
C9_FirstRuleWins ==
    pc = "classified" =>
        LET name == Lower(col_name)
            list == RuleList(name, Lower(col_type))
            first == CHOOSE i \in 1..Len(list) :
                         list[i][2] /\ \A j \in 1..(i - 1) : ~list[j][2]
            foreign_key == CHOOSE i \in 1..Len(list) : list[i][1] = "integer_1_10"
        IN  /\ rule = list[first][1]
            /\ rule = "integer_1_10" =>
                   /\ \A j \in 1..(foreign_key - 1) : ~list[j][2]
                   /\ name \notin {w_id, w_id_usuario}
            /\ name \in {w_id, w_id_usuario} => rule \in TypeRules

\* Id_Usuario of type INT has been classified by the integer type rule
C9_Witness ==
    /\ pc = "classified"
    /\ col_name = cn.Id_Usuario
    /\ col_type = ct.INT
    /\ rule = "integer_1_100000"

(***************************************************************************)
(* Properties of parse_schema and main.                                    *)
(***************************************************************************)
\* parse_schema has returned
ParseDone == structured \/ fallback

\* the CREATE TABLE statements of the script whose table identifier is the
\* requested name, letter case apart
Requested ==
    {i \in 1..Len(script) :
        script[i].kind = "create" /\ Lower(script[i].name) = Lower(table_name)}

\* the column definitions of a statement, in the order of the text
DeclaredColumns(st) == SelectSeq(st.clauses, LAMBDA c : c.isColumnDef)

\* the index in dialects of the first dialect that parsed the script
FirstParsed ==
    CHOOSE d \in 1..Len(dialects) :
        /\ dialects[d] \in parsed
        /\ \A e \in 1..(d - 1) : dialects[e] \notin parsed

\* C1: the first dialect that parses the script, the script holding a CREATE
\* TABLE of the requested name, makes parse_schema return the columns of
\* that statement: no later dialect is tried and the fallback pass is not
\* entered.
C1_FirstParsingDialectWins ==
    (parsed # {} /\ Requested # {}) =>
        /\ structured
        /\ ~fallback
        /\ Len(tried) = FirstParsed

\* C2: when neither pass finds the table, parse_schema returns the empty
\* sequence and main stops; the output file is never opened, and nothing is
\* ever written, after an empty extraction result.
C2_NoOutputOnEmptyResult ==
    /\ (fallback /\ ~structured /\ ~RegexSearch(sql_content, table_name).found) =>
           /\ all_columns = << >>
           /\ pc \in {"check", "exit1"}
    /\ (opened \/ output # << >> \/ pc \in {"rows", "done"}) =>
           all_columns # << >>

\* the run stopped on a script that does not hold the requested table
C2_Witness ==
    /\ pc = "exit1"
    /\ fallback
    /\ Requested = {}
    /\ all_columns = << >>
    /\ ~opened
    /\ output = << >>

\* C3: for a script with one CREATE TABLE of the requested name, the result
\* has one descriptor per declared column, in the declared order, each with
\* the bare (unquoted) name of its column.
C3_OneDescriptorPerColumn ==
    (ParseDone /\ Cardinality(Requested) = 1) =>
        LET decl == DeclaredColumns(script[CHOOSE i \in Requested : TRUE])
        IN  /\ Len(all_columns) = Len(decl)
            /\ \A k \in 1..Len(decl) : all_columns[k].name = decl[k].name

\* the text of a column clause after its name and its type
ConstraintText(line) ==
    LET parts == Split(line)
    IN  JoinWith(<< " " >>, SubSeq(parts, 3, Len(parts)))

\* C4: a descriptor is flagged identity exactly when the constraint text of
\* its clause holds IDENTITY, AUTO_INCREMENT or SERIAL (a name or a type
\* that holds one of them does not count).
C4_IdentityFromConstraintText ==
    (fallback /\ Len(kept_lines) = Len(all_columns)) =>
        \A k \in 1..Len(all_columns) :
            all_columns[k].is_identity
                = HasIdentityWord(Upper(ConstraintText(kept_lines[k])))

\* the clauses that gave a descriptor
KeptClauses == {kept_lines[k] : k \in 1..Len(kept_lines)}

\* C6: in the fallback pass a clause is discarded if and only if its first
\* token is PRIMARY, FOREIGN, KEY, CONSTRAINT or INDEX, letter case apart.
C6_DiscardIffKeywordToken ==
    fallback =>
        \A k \in 1..Len(col_definitions) :
            LET line == Strip(col_definitions[k]) IN
            line # << >> =>
                ((line \notin KeptClauses)
                    <=> (Upper(Split(line)[1]) \in TableKeywords))

\* C7: with no CREATE TABLE of the requested name the result is empty; with
\* one, the result is not empty and every descriptor is a column of that
\* statement.
C7_ExactTableMatch ==
    ParseDone =>
        /\ Requested = {} => all_columns = << >>
        /\ Cardinality(Requested) = 1 =>
               LET decl == DeclaredColumns(script[CHOOSE i \in Requested : TRUE])
               IN  /\ all_columns # << >>
                   /\ \A k \in 1..Len(all_columns) :
                          \E j \in 1..Len(decl) :
                              all_columns[k].name = decl[j].name

\* the INSERT lines written so far
Inserts == SelectSeq(output, LAMBDA l : l.kind = "insert")

\* the non-identity descriptors of the extraction result
NonIdentity == SelectSeq(all_columns, LAMBDA c : ~c.is_identity)

NamesOf(cols) == [k \in 1..Len(cols) |-> cols[k].name]

\* names without the repetitions: each name at its first occurrence
FirstOccurrences(names) ==
    LET idx == {k \in 1..Len(names) : \A j \in 1..(k - 1) : names[j] # names[k]}
    IN  [n \in 1..Cardinality(idx) |->
            names[CHOOSE k \in idx : Cardinality({j \in idx : j < k}) = n - 1]]

\* C10 (as stated): main writes exactly rows INSERTs, each listing exactly
\* the non-identity columns of the result, in order, with one value per
\* column, and no identity column.
C10_InsertsListNonIdentity ==
    pc \in {"rows", "done"} =>
        /\ pc = "done" => Len(Inserts) = rows
        /\ \A n \in 1..Len(Inserts) :
               /\ Inserts[n].names = NamesOf(NonIdentity)
               /\ Len(Inserts[n].values) = Len(Inserts[n].names)
               /\ \A k \in 1..Len(all_columns) :
                      all_columns[k].is_identity =>
                          \A j \in 1..Len(Inserts[n].names) :
                              Inserts[n].names[j] # all_columns[k].name

\* C10 (amended): main writes max(rows, 0) INSERTs, each listing the names of
\* the non-identity columns of the result, a repeated name once, in the
\* order of first occurrence, with one value per listed name.
C10_InsertsListDistinctNonIdentity ==
    pc \in {"rows", "done"} =>
        /\ pc = "done" => Len(Inserts) = (IF rows > 0 THEN rows ELSE 0)
        /\ \A n \in 1..Len(Inserts) :
               /\ Inserts[n].names = FirstOccurrences(NamesOf(NonIdentity))
               /\ Len(Inserts[n].values) = Len(Inserts[n].names)
               /\ \A j \in 1..Len(Inserts[n].names) :
                      \E k \in 1..Len(NonIdentity) :
                          NonIdentity[k].name = Inserts[n].names[j]

\* two rows were written for a table that has an identity column
C10_Witness ==
    /\ pc = "done"
    /\ rows = 2
    /\ Len(Inserts) = 2
    /\ Len(NonIdentity) < Len(all_columns)
    /\ NonIdentity # << >>

====
